---- MODULE Spec2Model ----
(***************************************************************************)
(* Model of src/index_documents.py: the DocumentVectorizer ingestion       *)
(* pipeline (extract -> chunk -> embed -> save) and its entry point.       *)
(*                                                                         *)
(* Texts are sequences of one-character strings.  The store is a           *)
(* PostgreSQL connection driven through psycopg2: a transaction begins at  *)
(* the first statement, a statement that fails on the server leaves the    *)
(* transaction aborted (later statements fail, COMMIT ends it as a         *)
(* rollback), and `with conn` commits on normal exit and rolls back on an  *)
(* exception.  Loss of the connection itself (a failing COMMIT) is outside *)
(* the model.  The created_at column is not modelled.                      *)
(***************************************************************************)
EXTENDS Integers, Sequences, FiniteSets, TLC

VARIABLES
    pc,          \* control position of the running code
    cfg,         \* [db_url, api_key]: is DATABASE_URL / GEMINI_API_KEY set
    conn,        \* "none" | "open" | "broken" | "closed": the psycopg2 connection
    vectorizer,  \* is the name `vectorizer` bound in __main__ ('vectorizer' in locals())
    schema,      \* does the schema and table exist in the store
    table,       \* committed rows of document_embeddings, in insertion order
    nextId,      \* next value of the id SERIAL sequence
    txStatus,    \* "idle" | "intrans" | "aborted": transaction status of conn
    txRows,      \* rows inserted in the open transaction, not yet committed
    txCount,     \* history: number of transactions begun on conn
    file,        \* the file at file_path
    raw_text,    \* process_file: raw_text
    chunks,      \* process_file: chunks
    idx,         \* process_file: idx of the loop (0-based, as enumerate)
    inserted,    \* process_file: inserted
    log,         \* history: printed lines and calls made, in order
    exc,         \* the exception in flight or last raised (NoExc when none)
    caller,      \* who called get_embedding: "process_file" | "direct"
    ge_text,     \* get_embedding: text
    attempt,     \* get_embedding: attempt
    last_err,    \* get_embedding: last_err
    trace,       \* history: remote calls and sleeps of the current get_embedding call
    geResult,    \* value returned by get_embedding
    tableAtCall, \* history: the committed table when process_file was called
    txAtCall,    \* history: txCount when process_file was called
    remoteCalls, \* history: remote embedding calls made in this run
    sleepCount,  \* history: time.sleep calls made in this run
    runs         \* history: number of runs of the program against the store

vars == <<pc, cfg, conn, vectorizer, schema, table, nextId, txStatus, txRows,
          txCount, file, raw_text, chunks, idx, inserted, log, exc, caller,
          ge_text, attempt, last_err, trace, geResult, tableAtCall, txAtCall,
          remoteCalls, sleepCount, runs>>

-----------------------------------------------------------------------------
(* Bounds of the model *)

MaxPages == 2
MaxTextLen == 6
MaxEmbedTextLen == 3

-----------------------------------------------------------------------------
(* Program constants *)

max_retries == 3
base_delay_s == 1

-----------------------------------------------------------------------------
(* Text: str.strip, str.split, str.join *)

NL == "\n"
WhiteSpace == {" ", "\n", "\t", "\r", "\f"}
Char == {"a", " ", NL}

Texts(n) == UNION {[1..k -> Char] : k \in 0..n}

IsSpace(c) == c \in WhiteSpace

RECURSIVE LStrip(_)
LStrip(s) ==
    IF s = <<>> THEN s
    ELSE IF IsSpace(Head(s)) THEN LStrip(Tail(s)) ELSE s

RECURSIVE RStrip(_)
RStrip(s) ==
    IF s = <<>> THEN s
    ELSE IF IsSpace(s[Len(s)]) THEN RStrip(SubSeq(s, 1, Len(s) - 1)) ELSE s

Strip(s) == RStrip(LStrip(s))

\* text.split("\n\n"): left-to-right, non-overlapping occurrences of the separator
RECURSIVE SplitAcc(_, _, _)
SplitAcc(s, cur, acc) ==
    IF s = <<>> THEN Append(acc, cur)
    ELSE IF Len(s) >= 2 /\ s[1] = NL /\ s[2] = NL
         THEN SplitAcc(SubSeq(s, 3, Len(s)), <<>>, Append(acc, cur))
         ELSE SplitAcc(Tail(s), Append(cur, Head(s)), acc)

SplitBlankLine(s) == SplitAcc(s, <<>>, <<>>)

\* "\n\n".join(parts)
RECURSIVE JoinBlankLine(_)
JoinBlankLine(parts) ==
    IF parts = <<>> THEN <<>>
    ELSE IF Len(parts) = 1 THEN parts[1]
    ELSE parts[1] \o <<NL, NL>> \o JoinBlankLine(Tail(parts))

\* variant: the test is `not text` alone
IsBlank_NoStrip(text) == text = <<>>

\* `not text or not text.strip()`
IsBlank(text) == text = <<>> \/ Strip(text) = <<>>

RECURSIVE StripAll(_)
StripAll(parts) ==
    IF parts = <<>> THEN <<>>
    ELSE <<Strip(Head(parts))>> \o StripAll(Tail(parts))

\* variant: the filter is inverted, `if not c.strip()`
chunk_text_InvertedFilter(text) ==
    StripAll(SelectSeq(SplitBlankLine(text), LAMBDA c : Strip(c) = <<>>))

\* variant: the filter is `if c`, applied before the strip
chunk_text_FilterUnstripped(text) ==
    StripAll(SelectSeq(SplitBlankLine(text), LAMBDA c : c # <<>>))

chunk_text(text) ==
    StripAll(SelectSeq(SplitBlankLine(text), LAMBDA c : Strip(c) # <<>>))

-----------------------------------------------------------------------------
(* Files and extract_text *)

Exts == {".pdf", ".PDF", ".docx", ".Docx", ".txt", ".TXT", ""}

\* variant: the extension is compared as it is written
Lower_Identity(ext) == ext

\* ext.lower() on the extensions above
Lower(ext) ==
    CASE ext = ".PDF" -> ".pdf"
      [] ext = ".Docx" -> ".docx"
      [] ext = ".TXT" -> ".txt"
      [] OTHER -> ext

PageTexts == {<<>>, <<" ">>, <<"a">>, <<"a", NL>>}

\* a page of a PDF: page.extract_text() raises, or returns text
PageOutcomes == [raises : {FALSE}, text : PageTexts] \cup {[raises |-> TRUE, text |-> <<>>]}

PageSeqs == UNION {[1..k -> PageOutcomes] : k \in 0..MaxPages}
ParaSeqs == UNION {[1..k -> PageTexts] : k \in 0..MaxPages}

NoContent == [corrupt |-> FALSE, encrypted |-> FALSE, pages |-> <<>>, paragraphs |-> <<>>]

PdfContents ==
    {[NoContent EXCEPT !.corrupt = TRUE], [NoContent EXCEPT !.encrypted = TRUE]}
    \cup {[NoContent EXCEPT !.pages = ps] : ps \in PageSeqs}

DocxContents ==
    {[NoContent EXCEPT !.corrupt = TRUE]}
    \cup {[NoContent EXCEPT !.paragraphs = ps] : ps \in ParaSeqs}

FileOf(exists, ext, content) ==
    [exists |-> exists, dir |-> "./samples/", name |-> "test1", ext |-> ext,
     content |-> content]

Files ==
    {FileOf(FALSE, e, NoContent) : e \in Exts}
    \cup {FileOf(TRUE, e, NoContent) : e \in {x \in Exts : Lower(x) \notin {".pdf", ".docx"}}}
    \cup {FileOf(TRUE, e, c) : e \in {x \in Exts : Lower(x) = ".pdf"}, c \in PdfContents}
    \cup {FileOf(TRUE, e, c) : e \in {x \in Exts : Lower(x) = ".docx"}, c \in DocxContents}

NoFile == FileOf(FALSE, "", NoContent)

\* os.path.basename(file_path)
Basename(f) == <<f.name, f.ext>>

\* an exception: its type, its message, the value the message names (a string
\* in arg or a number in n) and its __cause__
NoExc == [type |-> "none", msg |-> "", arg |-> "", n |-> 0, cause |-> ""]
Raise(type, msg, arg, cause) ==
    [type |-> type, msg |-> msg, arg |-> arg, n |-> 0, cause |-> cause]

\* the for loop over reader.pages: text += extracted + "\n\n" for pages with text
RECURSIVE PdfText(_)
PdfText(pages) ==
    IF pages = <<>> THEN <<>>
    ELSE LET p == Head(pages)
             extracted == IF p.raises THEN <<>> ELSE p.text
         IN  (IF Strip(extracted) # <<>> THEN extracted \o <<NL, NL>> ELSE <<>>)
             \o PdfText(Tail(pages))

\* indices of the pages whose extraction raised (one warning each)
PdfWarnings(pages) == {i \in 1..Len(pages) : pages[i].raises}

DocxText(paragraphs) ==
    JoinBlankLine(SelectSeq(paragraphs, LAMBDA t : Strip(t) # <<>>))

\* what extract_text gives: the text or the exception, the number of page
\* warnings printed, and the parser the file was opened with ("none",
\* "PdfReader" or "Document")
ExtractOk(text, nwarn, parser) ==
    [ok |-> TRUE, text |-> text, err |-> NoExc, nwarn |-> nwarn, parser |-> parser]
ExtractErr(e, parser) ==
    [ok |-> FALSE, text |-> <<>>, err |-> e, nwarn |-> 0, parser |-> parser]

extract_text(f) ==
    IF ~f.exists THEN ExtractErr(Raise("FileNotFoundError", "", "file_path", ""), "none")
    ELSE LET ext == Lower(f.ext) IN
         IF ext = ".pdf" THEN
            IF f.content.corrupt
            THEN ExtractErr(Raise("ValueError", "Failed to read PDF", f.ext, "PdfReadError"),
                            "PdfReader")
            ELSE IF f.content.encrypted
            THEN ExtractErr(Raise("ValueError", "PDF is encrypted and cannot be processed",
                                  f.ext, ""), "PdfReader")
            ELSE ExtractOk(Strip(PdfText(f.content.pages)),
                           Cardinality(PdfWarnings(f.content.pages)), "PdfReader")
         ELSE IF ext = ".docx" THEN
            IF f.content.corrupt
            THEN ExtractErr(Raise("ValueError", "Failed to read DOCX", f.ext, "Exception"),
                            "Document")
            ELSE ExtractOk(Strip(DocxText(f.content.paragraphs)), 0, "Document")
         ELSE ExtractErr(Raise("ValueError", "Unsupported file format", ext, ""), "none")

-----------------------------------------------------------------------------
(* The store: table rows, statements, commit and rollback *)

Row(id, chunk, embedding, file_name, strategy) ==
    [id |-> id, chunk_text |-> chunk, embedding |-> embedding,
     file_name |-> file_name, split_strategy |-> strategy]

\* variant: the sentinel row carries the label of the normal path
SentinelRow_ChunkLabel(id, file_name) ==
    Row(id, <<>>, <<>>, file_name, "paragraph_split_newline")

\* line 123: the row of an empty document
SentinelRow(id, file_name) == Row(id, <<>>, <<>>, file_name, "empty_file")

\* variant: the chunk's row carries the label of the sentinel path
ChunkRow_SentinelLabel(id, chunk, embedding, file_name) ==
    Row(id, chunk, embedding, file_name, "empty_file")

\* lines 128, 141: the row of a chunk
ChunkRow(id, chunk, embedding, file_name) ==
    Row(id, chunk, embedding, file_name, "paragraph_split_newline")

\* a row that an earlier run left in the table
OldRow == Row(1, <<"a">>, <<1>>, <<"old", ".pdf">>, "paragraph_split_newline")

\* the store before the program starts: absent schema, empty table, or one old row
Stores ==
    {[schema |-> FALSE, table |-> <<>>],
     [schema |-> TRUE, table |-> <<>>],
     [schema |-> TRUE, table |-> <<OldRow>>]}

Vectors == {<<1>>, <<2>>}
RemoteErrors == {"Timeout", "Quota"}

Value(v) == [none |-> FALSE, values |-> v]
None == [none |-> TRUE, values |-> <<>>]

\* outcomes of cur.execute(insert_query, ...): the row is inserted, the call
\* fails in the client before anything is sent, or the statement fails on the
\* server.  An aborted transaction rejects every statement; a NULL embedding
\* violates NOT NULL.
InsertOutcomes(status, embedding) ==
    IF status = "aborted" \/ embedding.none THEN {"client_err", "server_err"}
    ELSE {"ok", "client_err", "server_err"}

\* transaction status after cur.execute with the given outcome
StatusAfter(status, outcome) ==
    CASE outcome = "ok" -> "intrans"
      [] outcome = "server_err" -> "aborted"
      [] OTHER -> status

\* does cur.execute with this outcome begin a transaction
Begins(status, outcome) == status = "idle" /\ outcome # "client_err"

\* variant: the commit replaces the rows the table held for the same file_name
TableAfterCommit_Replace(tbl, status, rows, file_name) ==
    SelectSeq(tbl, LAMBDA r : r.file_name # file_name)
    \o (IF status = "intrans" THEN rows ELSE <<>>)

\* rows made durable by conn.commit() at the normal exit of `with self.conn`
Committed(status, rows) == IF status = "intrans" THEN rows ELSE <<>>

\* the table after the commit of rows inserted for file_name: INSERT only adds
TableAfterCommit(tbl, status, rows, file_name) == tbl \o Committed(status, rows)

\* an entry of log: a printed line or a call, with up to two numbers
Ev(ev, a, b) == [ev |-> ev, a |-> a, b |-> b]

\* an entry of trace: the remote call of an attempt and its result, or a sleep
Call(n, res, v) == [ev |-> "call", attempt |-> n, res |-> res, values |-> v, delay |-> 0]
Sleep(n, d) == [ev |-> "sleep", attempt |-> n, res |-> "", values |-> <<>>, delay |-> d]

\* line 150, self.conn.close(): what the library call can do.  The connection
\* is closed afterwards; on a connection that has gone invalid the call may
\* raise as well.
ConnClose(c) ==
    {[conn |-> "closed", raised |-> r] : r \in IF c = "broken" THEN BOOLEAN ELSE {FALSE}}

\* variant: no try/except around self.conn.close()
close_NoExcept(c) == ConnClose(c)

\* lines 148-152, close(): conn.close() inside try/except Exception: pass
close(c) == {[conn |-> o.conn, raised |-> FALSE] : o \in ConnClose(c)}

-----------------------------------------------------------------------------
(* get_embedding *)

\* variant: attempt <= max_retries
ShouldRetry_OffByOne(n) == n <= max_retries

\* line 102: attempt < max_retries
ShouldRetry(n) == n < max_retries

\* variant: base_delay_s * (2 ** attempt)
BackoffDelay_NoMinusOne(n) == base_delay_s * (2 ^ n)

\* line 103: base_delay_s * (2 ** (attempt - 1))
BackoffDelay(n) == base_delay_s * (2 ^ (n - 1))

\* lines 92-95: the blank-text short circuit, else enter the retry loop
GE_Start ==
    /\ pc = "ge_start"
    /\ IF IsBlank(ge_text)
       THEN /\ geResult' = Value(<<>>)
            /\ pc' = "ge_returned"
            /\ UNCHANGED <<attempt, last_err>>
       ELSE /\ attempt' = 1
            /\ last_err' = "None"
            /\ pc' = "ge_try"
            /\ UNCHANGED geResult
    /\ UNCHANGED <<runs, remoteCalls, sleepCount, cfg, conn, vectorizer, schema, table, nextId, txStatus, txRows,
                   txCount, file, raw_text, chunks, idx, inserted, log, exc,
                   caller, ge_text, trace, tableAtCall, txAtCall>>

\* lines 97-99: the remote call succeeds and its vector is returned
GE_AttemptOk ==
    /\ pc = "ge_try"
    /\ \E v \in Vectors :
          /\ trace' = Append(trace, Call(attempt, "ok", v))
          /\ geResult' = Value(v)
    /\ remoteCalls' = remoteCalls + 1
    /\ pc' = "ge_returned"
    /\ UNCHANGED <<runs, sleepCount, cfg, conn, vectorizer, schema, table, nextId, txStatus, txRows,
                   txCount, file, raw_text, chunks, idx, inserted, log, exc,
                   caller, ge_text, attempt, last_err, tableAtCall, txAtCall>>

\* lines 100-106: the remote call raises; sleep and go round the loop, or raise
GE_AttemptFail ==
    /\ pc = "ge_try"
    /\ remoteCalls' = remoteCalls + 1
    /\ \E e \in RemoteErrors :
          /\ last_err' = e
          /\ IF ShouldRetry(attempt)
             THEN /\ sleepCount' = sleepCount + 1
                  /\ trace' = trace \o <<Call(attempt, e, <<>>),
                                         Sleep(attempt, BackoffDelay(attempt))>>
                  /\ attempt' = attempt + 1
                  /\ IF attempt + 1 <= max_retries
                     THEN pc' = "ge_try" /\ UNCHANGED geResult
                     ELSE pc' = "ge_returned" /\ geResult' = None
                  /\ UNCHANGED exc
             ELSE /\ trace' = Append(trace, Call(attempt, e, <<>>))
                  /\ UNCHANGED sleepCount
                  /\ exc' = [Raise("RuntimeError", "Embedding failed after attempts", "", e)
                                EXCEPT !.n = max_retries]
                  /\ pc' = "ge_raised"
                  /\ UNCHANGED <<attempt, geResult>>
    /\ UNCHANGED <<runs, cfg, conn, vectorizer, schema, table, nextId, txStatus, txRows,
                   txCount, file, raw_text, chunks, idx, inserted, log,
                   caller, ge_text, tableAtCall, txAtCall>>

-----------------------------------------------------------------------------
(* process_file *)

\* variant: an error of extract_text is swallowed and the file treated as empty
PF_Extract_Swallow ==
    /\ pc = "pf_start"
    /\ tableAtCall' = table
    /\ txAtCall' = txCount
    /\ LET r == extract_text(file) IN
       /\ log' = log \o <<Ev("processing", 0, 0)>>
                     \o (IF r.parser = "none" THEN <<>> ELSE <<Ev(r.parser, 0, 0)>>)
                     \o [i \in 1..r.nwarn |-> Ev("page_warning", 0, 0)]
       /\ raw_text' = r.text
       /\ pc' = "pf_check"
    /\ UNCHANGED <<runs, remoteCalls, sleepCount, cfg, conn, vectorizer, schema, table, nextId, txStatus, txRows,
                   txCount, file, chunks, idx, inserted, exc, caller, ge_text,
                   attempt, last_err, trace, geResult>>

\* lines 110-113: print, extract_text; an error of extract_text propagates
PF_Extract ==
    /\ pc = "pf_start"
    /\ tableAtCall' = table
    /\ txAtCall' = txCount
    /\ LET r == extract_text(file) IN
       /\ log' = log \o <<Ev("processing", 0, 0)>>
                     \o (IF r.parser = "none" THEN <<>> ELSE <<Ev(r.parser, 0, 0)>>)
                     \o [i \in 1..r.nwarn |-> Ev("page_warning", 0, 0)]
       /\ IF r.ok
          THEN /\ raw_text' = r.text
               /\ pc' = "pf_check"
               /\ UNCHANGED exc
          ELSE /\ exc' = r.err
               /\ pc' = "pf_raised"
               /\ UNCHANGED raw_text
    /\ UNCHANGED <<runs, remoteCalls, sleepCount, cfg, conn, vectorizer, schema, table, nextId, txStatus, txRows,
                   txCount, file, chunks, idx, inserted, caller, ge_text,
                   attempt, last_err, trace, geResult>>

\* variant: the sentinel insert is wrapped in try/except like a chunk's insert:
\* its failure is warned about and process_file returns
PF_Sentinel_Caught ==
    /\ pc = "pf_check"
    /\ IsBlank(raw_text)
    /\ \E outcome \in InsertOutcomes(txStatus, Value(<<>>)) :
          /\ txCount' = txCount + (IF Begins(txStatus, outcome) THEN 1 ELSE 0)
          /\ txStatus' = "idle"
          /\ txRows' = <<>>
          /\ IF outcome = "ok"
             THEN /\ table' = Append(table, SentinelRow(nextId, Basename(file)))
                  /\ nextId' = nextId + 1
                  /\ log' = log \o <<Ev("sentinel_insert", 0, 0), Ev("empty_skipped", 0, 0)>>
             ELSE /\ log' = log \o <<Ev("sentinel_insert", 0, 0), Ev("sentinel_raised", 0, 0),
                                     Ev("empty_skipped", 0, 0)>>
                  /\ UNCHANGED <<table, nextId>>
    /\ pc' = "pf_returned"
    /\ UNCHANGED <<runs, remoteCalls, sleepCount, cfg, conn, vectorizer, schema,
                   file, raw_text, chunks, idx, inserted, exc, caller, ge_text,
                   attempt, last_err, trace, geResult, tableAtCall, txAtCall>>

\* lines 115-125: empty document: one sentinel row in its own `with self.conn`
PF_Sentinel ==
    /\ pc = "pf_check"
    /\ IsBlank(raw_text)
    /\ \E outcome \in InsertOutcomes(txStatus, Value(<<>>)) :
          /\ txCount' = txCount + (IF Begins(txStatus, outcome) THEN 1 ELSE 0)
          /\ txStatus' = "idle"
          /\ txRows' = <<>>
          /\ IF outcome = "ok"
             THEN /\ table' = Append(table, SentinelRow(nextId, Basename(file)))
                  /\ nextId' = nextId + 1
                  /\ log' = log \o <<Ev("sentinel_insert", 0, 0), Ev("empty_skipped", 0, 0)>>
                  /\ pc' = "pf_returned"
                  /\ UNCHANGED exc
             ELSE /\ log' = log \o <<Ev("sentinel_insert", 0, 0), Ev("sentinel_raised", 0, 0)>>
                  /\ exc' = Raise("StoreError", outcome, "", "")
                  /\ pc' = "pf_raised"
                  /\ UNCHANGED <<table, nextId>>
    /\ UNCHANGED <<runs, remoteCalls, sleepCount, cfg, conn, vectorizer, schema, file, raw_text, chunks, idx,
                   inserted, caller, ge_text, attempt, last_err, trace, geResult,
                   tableAtCall, txAtCall>>

\* lines 127-137: chunk the text and enter the loop's `with self.conn`
PF_Chunk ==
    /\ pc = "pf_check"
    /\ ~IsBlank(raw_text)
    /\ chunks' = chunk_text(raw_text)
    /\ inserted' = 0
    /\ idx' = 0
    /\ pc' = "pf_loop"
    /\ UNCHANGED <<runs, remoteCalls, sleepCount, cfg, conn, vectorizer, schema, table, nextId, txStatus, txRows,
                   txCount, file, raw_text, log, exc, caller, ge_text, attempt,
                   last_err, trace, geResult, tableAtCall, txAtCall>>

\* lines 138-140: next chunk: call get_embedding(chunk)
PF_Embed ==
    /\ pc = "pf_loop"
    /\ idx < Len(chunks)
    /\ caller' = "process_file"
    /\ ge_text' = chunks[idx + 1]
    /\ trace' = <<>>
    /\ log' = Append(log, Ev("embed", idx, 0))
    /\ pc' = "ge_start"
    /\ UNCHANGED <<runs, remoteCalls, sleepCount, cfg, conn, vectorizer, schema, table, nextId, txStatus, txRows,
                   txCount, file, raw_text, chunks, idx, inserted, exc, attempt,
                   last_err, geResult, tableAtCall, txAtCall>>

\* variant: no try/except around the chunk: the exception leaves the loop and
\* `with self.conn` rolls back
PF_EmbedRaised_NoCatch ==
    /\ pc = "ge_raised"
    /\ caller = "process_file"
    /\ log' = Append(log, Ev("embed_raised", idx, 0))
    /\ txStatus' = "idle"
    /\ txRows' = <<>>
    /\ pc' = "pf_raised"
    /\ UNCHANGED <<runs, remoteCalls, sleepCount, cfg, conn, vectorizer, schema, table, nextId, txCount, file,
                   raw_text, chunks, idx, inserted, exc, caller, ge_text, attempt,
                   last_err, trace, geResult, tableAtCall, txAtCall>>

\* lines 143-144: get_embedding raised: warn and go on with the next chunk
\* (the frame of get_embedding, with attempt and last_err, is gone)
PF_EmbedRaised ==
    /\ pc = "ge_raised"
    /\ caller = "process_file"
    /\ log' = log \o <<Ev("embed_raised", idx, 0), Ev("warning", idx, 0)>>
    /\ exc' = NoExc
    /\ idx' = idx + 1
    /\ pc' = "pf_loop"
    /\ attempt' = 0
    /\ last_err' = "None"
    /\ trace' = <<>>
    /\ UNCHANGED <<runs, remoteCalls, sleepCount, cfg, conn, vectorizer, schema,
                   table, nextId, txStatus, txRows, txCount, file, raw_text, chunks,
                   inserted, caller, ge_text, geResult, tableAtCall, txAtCall>>

\* lines 141-144: insert the chunk's row; a failing insert is warned about
PF_Insert ==
    /\ pc = "ge_returned"
    /\ caller = "process_file"
    /\ \E outcome \in InsertOutcomes(txStatus, geResult) :
          /\ txCount' = txCount + (IF Begins(txStatus, outcome) THEN 1 ELSE 0)
          /\ txStatus' = StatusAfter(txStatus, outcome)
          /\ IF outcome = "ok"
             THEN /\ txRows' = Append(txRows, ChunkRow(nextId, chunks[idx + 1], geResult.values,
                                                       Basename(file)))
                  /\ nextId' = nextId + 1
                  /\ inserted' = inserted + 1
                  /\ log' = Append(log, Ev("insert", idx, nextId))
             ELSE /\ log' = log \o <<Ev("insert", idx, 0), Ev("insert_raised", idx, 0),
                                     Ev("warning", idx, 0)>>
                  /\ UNCHANGED <<txRows, nextId, inserted>>
    /\ idx' = idx + 1
    /\ pc' = "pf_loop"
    /\ attempt' = 0
    /\ last_err' = "None"
    /\ trace' = <<>>
    /\ UNCHANGED <<runs, remoteCalls, sleepCount, cfg, conn, vectorizer, schema,
                   table, file, raw_text, chunks, exc, caller, ge_text, geResult,
                   tableAtCall, txAtCall>>

\* lines 137, 146: the loop is over: `with self.conn` commits, the summary is printed
PF_Report ==
    /\ pc = "pf_loop"
    /\ idx >= Len(chunks)
    /\ table' = TableAfterCommit(table, txStatus, txRows, Basename(file))
    /\ txStatus' = "idle"
    /\ txRows' = <<>>
    /\ log' = Append(log, Ev("summary", inserted, Len(chunks)))
    /\ pc' = "pf_returned"
    /\ UNCHANGED <<runs, remoteCalls, sleepCount, cfg, conn, vectorizer, schema, nextId, txCount, file, raw_text,
                   chunks, idx, inserted, exc, caller, ge_text, attempt, last_err,
                   trace, geResult, tableAtCall, txAtCall>>

-----------------------------------------------------------------------------
(* DocumentVectorizer.__init__, _init_db and the entry point *)

\* lines 156, 22-29: check the configuration, connect to the store
Main_Construct ==
    /\ pc = "main"
    /\ IF ~cfg.db_url
       THEN /\ exc' = Raise("ValueError", "DATABASE_URL is missing/empty.", "", "")
            /\ pc' = "main_except"
            /\ UNCHANGED conn
       ELSE IF ~cfg.api_key
       THEN /\ exc' = Raise("ValueError", "GEMINI_API_KEY is missing/empty.", "", "")
            /\ pc' = "main_except"
            /\ UNCHANGED conn
       ELSE \E ok \in BOOLEAN :
               IF ok
               THEN /\ conn' = "open"
                    /\ pc' = "init_db"
                    /\ UNCHANGED exc
               ELSE /\ exc' = Raise("OperationalError", "connect", "", "")
                    /\ pc' = "main_except"
                    /\ UNCHANGED conn
    /\ UNCHANGED <<runs, remoteCalls, sleepCount, cfg, vectorizer, schema, table, nextId, txStatus, txRows, txCount,
                   file, raw_text, chunks, idx, inserted, log, caller, ge_text,
                   attempt, last_err, trace, geResult, tableAtCall, txAtCall>>

\* variant: CREATE SCHEMA / CREATE TABLE without IF NOT EXISTS
Create_Plain(exists) == [exists |-> TRUE, duplicate |-> exists]

\* lines 34-35: CREATE SCHEMA IF NOT EXISTS, CREATE TABLE IF NOT EXISTS: the
\* schema and table exist afterwards; no error when they existed already
CreateIfNotExists(exists) == [exists |-> TRUE, duplicate |-> FALSE]

\* lines 30, 32-45, 157: CREATE ... IF NOT EXISTS in one transaction; when it
\* fails the constructor raises and `vectorizer` is never bound
Init_db ==
    /\ pc = "init_db"
    /\ txCount' = txCount + 1
    /\ \E ok \in BOOLEAN :
          LET ddl == CreateIfNotExists(schema) IN
          IF ok /\ ~ddl.duplicate
          THEN /\ schema' = ddl.exists
               /\ vectorizer' = TRUE
               /\ log' = Append(log, Ev("initialized", 0, 0))
               /\ pc' = "pf_start"
               /\ UNCHANGED exc
          ELSE /\ exc' = Raise("StoreError",
                               IF ddl.duplicate THEN "DuplicateSchema" ELSE "server_err",
                               "", "")
               /\ pc' = "main_except"
               /\ UNCHANGED <<schema, vectorizer, log>>
    /\ UNCHANGED <<runs, remoteCalls, sleepCount, cfg, conn, table, nextId, txStatus, txRows, file, raw_text,
                   chunks, idx, inserted, caller, ge_text, attempt, last_err,
                   trace, geResult, tableAtCall, txAtCall>>

\* line 159: process_file returned
Main_Success ==
    /\ pc = "pf_returned"
    /\ log' = Append(log, Ev("success", 0, 0))
    /\ pc' = "main_finally"
    /\ UNCHANGED <<runs, remoteCalls, sleepCount, cfg, conn, vectorizer, schema, table, nextId, txStatus, txRows,
                   txCount, file, raw_text, chunks, idx, inserted, exc, caller,
                   ge_text, attempt, last_err, trace, geResult, tableAtCall, txAtCall>>

\* lines 160-161: the constructor or process_file raised
Main_Except ==
    /\ pc \in {"main_except", "pf_raised"}
    /\ log' = Append(log, Ev("error", 0, 0))
    /\ pc' = "main_finally"
    /\ UNCHANGED <<runs, remoteCalls, sleepCount, cfg, conn, vectorizer, schema, table, nextId, txStatus, txRows,
                   txCount, file, raw_text, chunks, idx, inserted, exc, caller,
                   ge_text, attempt, last_err, trace, geResult, tableAtCall, txAtCall>>

\* lines 162-164: close the vectorizer if the name is bound
Main_Finally ==
    /\ pc = "main_finally"
    /\ IF vectorizer
       THEN \E o \in close(conn) :
               /\ conn' = o.conn
               /\ log' = Append(log, Ev("close", 0, 0))
               /\ pc' = IF o.raised THEN "crashed" ELSE "exit"
       ELSE /\ pc' = "exit"
            /\ UNCHANGED <<conn, log>>
    /\ UNCHANGED <<runs, remoteCalls, sleepCount, cfg, vectorizer, schema, table, nextId, txStatus, txRows,
                   txCount, file, raw_text, chunks, idx, inserted, exc,
                   caller, ge_text, attempt, last_err, trace, geResult, tableAtCall, txAtCall>>

-----------------------------------------------------------------------------
(* Specifications *)

\* The entry point: one program run on one file against one store.
Init ==
    /\ pc = "main"
    /\ cfg \in [db_url : BOOLEAN, api_key : BOOLEAN]
    /\ conn = "none"
    /\ vectorizer = FALSE
    /\ \E st \in Stores :
          /\ schema = st.schema
          /\ table = st.table
          /\ nextId = Len(st.table) + 1
    /\ txStatus = "idle"
    /\ txRows = <<>>
    /\ txCount = 0
    /\ file \in Files
    /\ raw_text = <<>>
    /\ chunks = <<>>
    /\ idx = 0
    /\ inserted = 0
    /\ log = <<>>
    /\ exc = NoExc
    /\ caller = "none"
    /\ ge_text = <<>>
    /\ attempt = 0
    /\ last_err = "None"
    /\ trace = <<>>
    /\ geResult = None
    /\ tableAtCall = <<>>
    /\ txAtCall = 0
    /\ remoteCalls = 0
    /\ sleepCount = 0
    /\ runs = 1

Next ==
    \/ Main_Construct
    \/ Init_db
    \/ PF_Extract
    \/ PF_Sentinel
    \/ PF_Chunk
    \/ PF_Embed
    \/ GE_Start
    \/ GE_AttemptOk
    \/ GE_AttemptFail
    \/ PF_EmbedRaised
    \/ PF_Insert
    \/ PF_Report
    \/ Main_Success
    \/ Main_Except
    \/ Main_Finally

Spec == Init /\ [][Next]_vars

\* get_embedding called on its own with any text.
InitEmbed ==
    /\ pc = "ge_start"
    /\ cfg = [db_url |-> TRUE, api_key |-> TRUE]
    /\ conn = "open"
    /\ vectorizer = TRUE
    /\ schema = TRUE
    /\ table = <<>>
    /\ nextId = 1
    /\ txStatus = "idle"
    /\ txRows = <<>>
    /\ txCount = 0
    /\ file = NoFile
    /\ raw_text = <<>>
    /\ chunks = <<>>
    /\ idx = 0
    /\ inserted = 0
    /\ log = <<>>
    /\ exc = NoExc
    /\ caller = "direct"
    /\ ge_text \in Texts(MaxEmbedTextLen)
    /\ attempt = 0
    /\ last_err = "None"
    /\ trace = <<>>
    /\ geResult = None
    /\ tableAtCall = <<>>
    /\ txAtCall = 0
    /\ remoteCalls = 0
    /\ sleepCount = 0
    /\ runs = 1

NextEmbed == GE_Start \/ GE_AttemptOk \/ GE_AttemptFail

SpecEmbed == InitEmbed /\ [][NextEmbed]_vars

\* chunk_text applied to any text.
Chunk ==
    /\ pc = "chunk_start"
    /\ chunks' = chunk_text(raw_text)
    /\ pc' = "chunk_done"
    /\ UNCHANGED <<runs, remoteCalls, sleepCount, cfg, conn, vectorizer, schema, table, nextId, txStatus, txRows,
                   txCount, file, raw_text, idx, inserted, log, exc, caller,
                   ge_text, attempt, last_err, trace, geResult, tableAtCall, txAtCall>>

ScenarioText ==
    <<"P", "a", "r", "a", " ", "o", "n", "e", ".", NL, NL,
      "P", "a", "r", "a", " ", "t", "w", "o", ".", NL, NL, NL,
      "P", "a", "r", "a", " ", "t", "h", "r", "e", "e", ".">>

InitChunk ==
    /\ pc = "chunk_start"
    /\ cfg = [db_url |-> TRUE, api_key |-> TRUE]
    /\ conn = "open"
    /\ vectorizer = TRUE
    /\ schema = TRUE
    /\ table = <<>>
    /\ nextId = 1
    /\ txStatus = "idle"
    /\ txRows = <<>>
    /\ txCount = 0
    /\ file = NoFile
    /\ raw_text \in Texts(MaxTextLen) \cup {ScenarioText}
    /\ chunks = <<>>
    /\ idx = 0
    /\ inserted = 0
    /\ log = <<>>
    /\ exc = NoExc
    /\ caller = "none"
    /\ ge_text = <<>>
    /\ attempt = 0
    /\ last_err = "None"
    /\ trace = <<>>
    /\ geResult = None
    /\ tableAtCall = <<>>
    /\ txAtCall = 0
    /\ remoteCalls = 0
    /\ sleepCount = 0
    /\ runs = 1

NextChunk == Chunk

SpecChunk == InitChunk /\ [][NextChunk]_vars

\* chunk_text applied to its own chunks, rejoined with a blank line.
Rechunk ==
    /\ pc = "chunk_done"
    /\ raw_text' = JoinBlankLine(chunks)
    /\ chunks' = chunk_text(JoinBlankLine(chunks))
    /\ pc' = "rechunk_done"
    /\ UNCHANGED <<runs, remoteCalls, sleepCount, cfg, conn, vectorizer, schema,
                   table, nextId, txStatus, txRows, txCount, file, idx, inserted,
                   log, exc, caller, ge_text, attempt, last_err, trace, geResult,
                   tableAtCall, txAtCall>>

NextRechunk == Chunk \/ Rechunk

SpecRechunk == InitChunk /\ [][NextRechunk]_vars

-----------------------------------------------------------------------------
(* The program run again and again against the same store *)

MaxRuns == 2

EmptyDocx == FileOf(TRUE, ".docx", NoContent)
OnePagePdf ==
    FileOf(TRUE, ".pdf", [NoContent EXCEPT !.pages = <<[raises |-> FALSE, text |-> <<"a">>]>>])
TwoParagraphDocx ==
    FileOf(TRUE, ".docx", [NoContent EXCEPT !.paragraphs = <<<<"a">>, <<"a", NL>>>>])

\* the files the repeated runs are given
SessionFiles ==
    {FileOf(FALSE, ".pdf", NoContent),
     FileOf(TRUE, ".pdf", [NoContent EXCEPT !.encrypted = TRUE]),
     EmptyDocx, OnePagePdf, TwoParagraphDocx}

InitSession ==
    /\ Init
    /\ cfg = [db_url |-> TRUE, api_key |-> TRUE]
    /\ file \in SessionFiles

\* the process has exited and the program is started again: nothing of the
\* process survives, the store does
Rerun ==
    /\ pc = "exit"
    /\ runs < MaxRuns
    /\ runs' = runs + 1
    /\ pc' = "main"
    /\ conn' = "none"
    /\ vectorizer' = FALSE
    /\ txStatus' = "idle"
    /\ txRows' = <<>>
    /\ txCount' = 0
    /\ file' \in SessionFiles
    /\ raw_text' = <<>>
    /\ chunks' = <<>>
    /\ idx' = 0
    /\ inserted' = 0
    /\ log' = <<>>
    /\ exc' = NoExc
    /\ caller' = "none"
    /\ ge_text' = <<>>
    /\ attempt' = 0
    /\ last_err' = "None"
    /\ trace' = <<>>
    /\ geResult' = None
    /\ tableAtCall' = <<>>
    /\ txAtCall' = 0
    /\ remoteCalls' = 0
    /\ sleepCount' = 0
    /\ UNCHANGED <<cfg, schema, table, nextId>>

NextSession == Next \/ Rerun

SpecSession == InitSession /\ [][NextSession]_vars

-----------------------------------------------------------------------------
(* close() on a connection that is open, invalid or already closed *)

\* how many times close() is called after the one of the finally block
MaxCloses == 3

CloseCalls == Cardinality({i \in 1..Len(log) : log[i].ev = "close"})

\* the connection goes invalid (the server drops it) before close() is called
Conn_Break ==
    /\ pc = "main_finally"
    /\ conn = "open"
    /\ conn' = "broken"
    /\ log' = Append(log, Ev("conn_lost", 0, 0))
    /\ UNCHANGED <<runs, remoteCalls, sleepCount, cfg, vectorizer, schema, table, nextId,
                   txStatus, txRows, txCount, file, raw_text, chunks, idx, inserted,
                   exc, caller, ge_text, attempt, last_err, trace, geResult,
                   tableAtCall, txAtCall, pc>>

\* lines 148-152: close() is called once more on the same object
Close_Again ==
    /\ pc = "exit"
    /\ vectorizer
    /\ CloseCalls < MaxCloses
    /\ \E o \in close(conn) :
          /\ conn' = o.conn
          /\ pc' = IF o.raised THEN "crashed" ELSE "exit"
    /\ log' = Append(log, Ev("close", 0, 0))
    /\ UNCHANGED <<runs, remoteCalls, sleepCount, cfg, vectorizer, schema, table, nextId,
                   txStatus, txRows, txCount, file, raw_text, chunks, idx, inserted,
                   exc, caller, ge_text, attempt, last_err, trace, geResult,
                   tableAtCall, txAtCall>>

NextClose == Next \/ Conn_Break \/ Close_Again

SpecClose == InitSession /\ [][NextClose]_vars

-----------------------------------------------------------------------------
(* Termination *)

\* The program is one sequential process: a step that can be taken is taken.
\* A remote call returns or raises and a sleep ends.
\* The store starts empty and the configuration is complete: neither changes
\* how many steps a run takes.
InitFair ==
    /\ Init
    /\ cfg = [db_url |-> TRUE, api_key |-> TRUE]
    /\ table = <<>>

SpecFair == InitFair /\ [][Next]_vars /\ WF_vars(Next)

-----------------------------------------------------------------------------
(* Properties *)

Range(f) == {f[i] : i \in DOMAIN f}

\* process_file has been called / has finished
Called == \E e \in Range(log) : e.ev = "processing"
Finished == pc \in {"pf_returned", "pf_raised", "main_finally", "exit"} /\ Called
Returned == Finished /\ exc = NoExc
Raised == Finished /\ exc # NoExc

\* what extraction gives for the file of this run
Extracted == extract_text(file)
EmptyDocument == Extracted.ok /\ Strip(Extracted.text) = <<>>
NonEmptyDocument == Extracted.ok /\ Strip(Extracted.text) # <<>>

\* rows that this call of process_file has left committed in the table
NewRows == SubSeq(table, Len(tableAtCall) + 1, Len(table))

\* the loop's part of log, as <<event, chunk index>> pairs
LoopEvents == {"embed", "embed_raised", "insert", "insert_raised", "warning"}
LoopLog ==
    LET l == SelectSeq(log, LAMBDA e : e.ev \in LoopEvents)
    IN  [i \in 1..Len(l) |-> <<l[i].ev, l[i].a>>]

\* what the loop may log for chunk i: embed and insert; embed raises and a
\* warning follows; insert raises and a warning follows
ChunkLogs(i) ==
    {<<<<"embed", i>>, <<"insert", i>>>>,
     <<<<"embed", i>>, <<"embed_raised", i>>, <<"warning", i>>>>,
     <<<<"embed", i>>, <<"insert", i>>, <<"insert_raised", i>>, <<"warning", i>>>>}

\* l is the log of chunks i, i+1, ..., n-1, each handled once, in order
RECURSIVE EachChunkOnce(_, _, _)
EachChunkOnce(l, i, n) ==
    IF i >= n THEN l = <<>>
    ELSE \E p \in ChunkLogs(i) :
            /\ Len(l) >= Len(p)
            /\ SubSeq(l, 1, Len(p)) = p
            /\ EachChunkOnce(SubSeq(l, Len(p) + 1, Len(l)), i + 1, n)

WarnedChunk(i) == \E e \in Range(log) : e.ev = "warning" /\ e.a = i
InsertedChunk(i) ==
    /\ \E e \in Range(log) : e.ev = "insert" /\ e.a = i
    /\ ~\E e \in Range(log) : e.ev = "insert_raised" /\ e.a = i
InsertId(i) == (CHOOSE e \in Range(log) : e.ev = "insert" /\ e.a = i).b

\* C1: whatever embedding calls and inserts fail, process_file handles every
\* chunk exactly once and in order (embed, then insert unless embed raised), a
\* chunk whose embed or insert raised gets a warning and the next chunk is
\* still handled, and process_file ends with its summary, not an exception.
C1_EveryChunkAttempted ==
    /\ pc = "pf_loop" => EachChunkOnce(LoopLog, 0, idx)
    /\ (Finished /\ NonEmptyDocument) =>
          /\ EachChunkOnce(LoopLog, 0, Len(chunk_text(Extracted.text)))
          /\ Returned
          /\ \E i \in DOMAIN log :
                /\ log[i] = Ev("summary", inserted, Len(chunks))
                /\ \A j \in DOMAIN log : log[j].ev \in LoopEvents => j < i

C1_Witness ==
    /\ pc = "pf_returned"
    /\ Len(chunks) = 2
    /\ LoopLog = <<<<"embed", 0>>, <<"embed_raised", 0>>, <<"warning", 0>>,
                   <<"embed", 1>>, <<"insert", 1>>>>

\* C2: a failure on chunk k never rolls back the rows of earlier chunks: when
\* process_file has finished, every chunk j < k whose embed and insert
\* succeeded has its row committed in the table.
C2_EarlierRowsKept ==
    (Finished /\ NonEmptyDocument) =>
        \A k \in 0..(Len(chunks) - 1) : \A j \in 0..(k - 1) :
            (WarnedChunk(k) /\ InsertedChunk(j)) =>
                \E r \in Range(table) :
                    r.id = InsertId(j) /\ r.chunk_text = chunks[j + 1]

NoEmbedding ==
    /\ remoteCalls = 0
    /\ sleepCount = 0
    /\ trace = <<>>
    /\ ~\E e \in Range(log) : e.ev = "embed"

\* the one row of an empty document and nothing else, written in one transaction
OneSentinelRow ==
    /\ Len(NewRows) = 1
    /\ NewRows[1].chunk_text = <<>>
    /\ NewRows[1].embedding = <<>>
    /\ NewRows[1].split_strategy = "empty_file"
    /\ NewRows[1].file_name = <<file.name, file.ext>>
    /\ txCount = txAtCall + 1

\* C3 as stated: whenever the extracted text is empty or whitespace-only,
\* process_file persists exactly one row ("", [], "empty_file") in a single
\* transaction, with no chunking and no embedding call.
C3_AlwaysOneSentinelRow ==
    (Finished /\ EmptyDocument) =>
        OneSentinelRow /\ chunks = <<>> /\ NoEmbedding

\* C3 amended: on an empty or whitespace-only text process_file does no
\* chunking, makes no embedding call and attempts the sentinel insert in at
\* most one transaction; when that insert succeeds it returns with exactly one
\* row ("", [], "empty_file") persisted, and when the insert fails it raises
\* and persists no row.
C3_SentinelRowUnlessInsertFails ==
    (Finished /\ EmptyDocument) =>
        /\ chunks = <<>>
        /\ NoEmbedding
        /\ Len(SelectSeq(log, LAMBDA e : e.ev = "sentinel_insert")) = 1
        /\ Returned => OneSentinelRow
        /\ Raised => (NewRows = <<>> /\ txCount <= txAtCall + 1
                      /\ exc.type = "StoreError")

C3_Witness ==
    /\ pc = "pf_returned"
    /\ Extracted.ok
    /\ Extracted.text = <<>>
    /\ \E i \in DOMAIN file.content.pages : file.content.pages[i].text = <<" ">>
    /\ Len(NewRows) = 1
    /\ tableAtCall # <<>>

\* s is a subsequence of t
RECURSIVE IsSubseq(_, _)
IsSubseq(s, t) ==
    IF s = <<>> THEN TRUE
    ELSE IF t = <<>> THEN FALSE
    ELSE IF Head(s) = Head(t) THEN IsSubseq(Tail(s), Tail(t))
    ELSE IsSubseq(s, Tail(t))

\* C4: on a non-empty text with N chunks, a call of process_file persists at
\* most N rows, all labelled "paragraph_split_newline", whose chunk_texts are
\* chunks of the text, each chunk used at most once; failures only lower the
\* count, and no "empty_file" row is written.
C4_AtMostOneRowPerChunk ==
    (Called /\ NonEmptyDocument) =>
        LET N == Len(chunk_text(Extracted.text))
            texts == [i \in 1..Len(NewRows) |-> NewRows[i].chunk_text]
        IN  /\ Len(NewRows) <= N
            /\ IsSubseq(texts, chunk_text(Extracted.text))
            /\ \A i \in 1..Len(NewRows) :
                  NewRows[i].split_strategy = "paragraph_split_newline"
            /\ \A r \in Range(txRows) : r.split_strategy = "paragraph_split_newline"
            /\ Finished => Len(NewRows) <= inserted

C4_Witness ==
    /\ pc = "pf_returned"
    /\ Len(chunks) = 2
    /\ Len(NewRows) = 1
    /\ NewRows[1].chunk_text = chunks[2]
    /\ WarnedChunk(0)

Calls == SelectSeq(trace, LAMBDA e : e.ev = "call")
Sleeps == SelectSeq(trace, LAMBDA e : e.ev = "sleep")
HasLetter(t) == \E i \in DOMAIN t : t[i] \notin {" ", NL}

\* C5: when the remote call fails on every attempt get_embedding makes exactly
\* 3 remote calls, never a 4th, and raises a failure that names 3 attempts and
\* has the last underlying failure as its cause; it returns no vector.
C5_RaisesAfterThreeFailures ==
    /\ Len(Calls) <= 3
    /\ pc = "ge_raised" =>
          /\ Len(Calls) = 3
          /\ \A i \in 1..3 : Calls[i].res # "ok" /\ Calls[i].attempt = i
          /\ trace[Len(trace)].ev = "call"
          /\ exc.type = "RuntimeError"
          /\ exc.n = 3
          /\ exc.cause = Calls[3].res
    /\ (Len(Calls) = 3 /\ \A i \in 1..3 : Calls[i].res # "ok") => pc = "ge_raised"
    /\ (pc = "ge_returned" /\ HasLetter(ge_text)) =>
          Calls # <<>> /\ Calls[Len(Calls)].res = "ok"

C5_Witness ==
    /\ pc = "ge_raised"
    /\ Len(Calls) = 3
    /\ Calls[2].res # Calls[3].res

\* C6: when the remote call fails k < 3 times and then succeeds, get_embedding
\* returns the vector of the successful call after k+1 remote calls and k
\* sleeps of 1, 2, ... (doubling), each sleep between a failed call and the
\* next call; nothing is slept after a success or after the last failed call.
C6_BackoffThenResult ==
    /\ (pc = "ge_returned" /\ HasLetter(ge_text)) =>
          LET k == Len(Sleeps) IN
          /\ k < 3
          /\ Len(trace) = 2 * k + 1
          /\ \A i \in 1..k :
                /\ trace[2 * i - 1].ev = "call"
                /\ trace[2 * i - 1].res # "ok"
                /\ trace[2 * i].ev = "sleep"
                /\ trace[2 * i].delay = 2 ^ (i - 1)
          /\ trace[2 * k + 1].ev = "call"
          /\ trace[2 * k + 1].res = "ok"
          /\ geResult = [none |-> FALSE, values |-> trace[2 * k + 1].values]
    /\ pc = "ge_raised" =>
          /\ Len(Sleeps) = 2
          /\ trace[Len(trace)].ev = "call"
    /\ \A i \in DOMAIN trace :
          trace[i].ev = "sleep" =>
              /\ i > 1
              /\ trace[i - 1].ev = "call"
              /\ trace[i - 1].res # "ok"
              /\ pc = "ge_try" \/ (i < Len(trace) /\ trace[i + 1].ev = "call")

C6_Witness ==
    /\ pc = "ge_returned"
    /\ Len(Calls) = 3
    /\ Len(Sleeps) = 2
    /\ Sleeps[1].delay = 1
    /\ Sleeps[2].delay = 2
    /\ geResult.values = <<2>>

\* C7: when extract_text raises, process_file raises the same error, makes no
\* embedding call, begins no transaction and inserts no row: the table is as
\* it was before the call.
C7_ExtractErrorLeavesTable ==
    (Called /\ ~Extracted.ok) =>
        /\ Raised
        /\ exc = Extracted.err
        /\ NoEmbedding
        /\ txCount = txAtCall
        /\ txRows = <<>>
        /\ txStatus = "idle"
        /\ table = tableAtCall

C7_Witness ==
    /\ pc = "pf_raised"
    /\ file.exists
    /\ file.content.encrypted
    /\ tableAtCall # <<>>
    /\ table = tableAtCall

\* C8: on every exit path of the entry point, every store connection that was
\* opened has been closed when the program exits.
C8_ConnectionClosedAtExit ==
    pc = "exit" => conn # "open"

\* C9: get_embedding on an empty or whitespace-only text returns the empty
\* vector, makes no remote call, does not sleep and does not raise.
C9_BlankTextShortCircuits ==
    ~HasLetter(ge_text) =>
        /\ trace = <<>>
        /\ pc \in {"ge_start", "ge_returned"}
        /\ pc = "ge_returned" => (geResult = [none |-> FALSE, values |-> <<>>] /\ exc = NoExc)

C9_Witness ==
    /\ pc = "ge_returned"
    /\ caller = "direct"
    /\ ge_text = <<" ", NL>>

\* the text cut at every maximal run of two or more newlines
RECURSIVE NewlineRun(_)
NewlineRun(s) ==
    IF s # <<>> /\ Head(s) = NL THEN 1 + NewlineRun(Tail(s)) ELSE 0

RECURSIVE CutAtBlankLines(_, _, _)
CutAtBlankLines(s, cur, acc) ==
    IF s = <<>> THEN Append(acc, cur)
    ELSE LET r == NewlineRun(s) IN
         IF r >= 2 THEN CutAtBlankLines(SubSeq(s, r + 1, Len(s)), <<>>, Append(acc, cur))
         ELSE CutAtBlankLines(Tail(s), Append(cur, Head(s)), acc)

Trimmed(t) ==
    LET first == CHOOSE i \in DOMAIN t : HasLetter(<<t[i]>>) /\ ~HasLetter(SubSeq(t, 1, i - 1))
        last == CHOOSE i \in DOMAIN t : HasLetter(<<t[i]>>) /\ ~HasLetter(SubSeq(t, i + 1, Len(t)))
    IN  SubSeq(t, first, last)

ParagraphsOf(text) ==
    LET segs == SelectSeq(CutAtBlankLines(text, <<>>, <<>>), HasLetter)
    IN  [i \in 1..Len(segs) |-> Trimmed(segs[i])]

Str(n) == CASE n = 1 -> <<"o", "n", "e">>
            [] n = 2 -> <<"t", "w", "o">>
            [] n = 3 -> <<"t", "h", "r", "e", "e">>
ScenarioChunk(n) == <<"P", "a", "r", "a", " ">> \o Str(n) \o <<".">>

\* C10: chunk_text returns the segments of the text between maximal runs of
\* two or more newlines, trimmed, without the segments that are empty after
\* trimming, in order; no chunk is empty or whitespace-only; the three
\* paragraphs of the scenario text come out as three chunks.
C10_ChunksAreParagraphs ==
    pc = "chunk_done" =>
        /\ chunks = ParagraphsOf(raw_text)
        /\ \A i \in DOMAIN chunks : HasLetter(chunks[i])
        /\ raw_text = ScenarioText =>
              chunks = <<ScenarioChunk(1), ScenarioChunk(2), ScenarioChunk(3)>>

C10_Witness ==
    /\ pc = "chunk_done"
    /\ raw_text = <<"a", NL, NL, NL, " ", "a">>
    /\ chunks = <<<<"a">>, <<"a">>>>

\* C11: chunking is idempotent: chunk_text applied to the chunks of a text,
\* rejoined with a blank line, returns the same chunks.
C11_ChunkingIdempotent ==
    [][(pc = "chunk_done" /\ pc' = "rechunk_done") => chunks' = chunks]_vars

C11_Witness ==
    /\ pc = "rechunk_done"
    /\ chunks = <<<<"a", NL, "a">>, <<"a">>>>
    /\ raw_text = <<"a", NL, "a", NL, NL, "a">>

\* C12: the table is append-only: across any sequence of process_file calls no
\* committed row is changed or removed, and processing a file again adds rows
\* with fresh ids, leaving the earlier rows of that file_name in place.
C12_AppendOnly ==
    [][/\ Len(table') >= Len(table)
       /\ \A i \in 1..Len(table) : table'[i] = table[i]
       /\ \A j \in (Len(table) + 1)..Len(table') :
             \A i \in 1..(j - 1) : table'[j].id > table'[i].id]_vars

C12_Witness ==
    /\ runs = 2
    /\ pc = "exit"
    /\ file = OnePagePdf
    /\ Len(tableAtCall) = 1
    /\ Len(table) = 2
    /\ table[1].file_name = table[2].file_name
    /\ table[1].chunk_text = table[2].chunk_text
    /\ table[1].id # table[2].id

\* C16: schema provisioning is idempotent: _init_db run again, or run on a
\* store whose schema and table exist and hold rows, raises no
\* duplicate-creation error, leaves the one schema and table in place and
\* leaves every row unchanged.
C16_ProvisioningIdempotent ==
    [][pc = "init_db" =>
          /\ table' = table
          /\ nextId' = nextId
          /\ schema => schema'
          /\ exc'.msg # "DuplicateSchema"
          /\ pc' = "pf_start" => schema']_vars

C16_Witness ==
    /\ runs = 2
    /\ pc = "pf_start"
    /\ schema
    /\ Len(table) = 2
    /\ table[1] = OldRow
    /\ table[2].split_strategy = "empty_file"

SentinelFailed == \E e \in Range(log) : e.ev = "sentinel_raised"
Printed(ev) == \E e \in Range(log) : e.ev = ev

\* C13: a store failure of the sentinel insert of an empty document is fatal
\* for the file: it leaves process_file as an exception, no success is
\* reported and no sentinel row of the call stays in the table.
C13_SentinelFailureIsFatal ==
    SentinelFailed =>
        /\ pc \in {"pf_raised", "main_finally", "exit"}
        /\ exc.type = "StoreError"
        /\ ~Printed("empty_skipped")
        /\ ~Printed("success")
        /\ ~Printed("summary")
        /\ pc \in {"main_finally", "exit"} => Printed("error")
        /\ table = tableAtCall
        /\ txRows = <<>>
        /\ txStatus = "idle"

C13_Witness ==
    /\ pc = "exit"
    /\ SentinelFailed
    /\ exc.msg = "server_err"
    /\ txCount = txAtCall + 1
    /\ tableAtCall # <<>>

\* C14: extract_text checks existence first: a missing path gives the
\* file-not-found error whatever its extension; an existing file is dispatched
\* on its lower-cased extension, .pdf and .docx being accepted in any letter
\* case; any other extension gives an unsupported-format error that names the
\* (lower-cased) extension, and no parser opens the file.
C14_ExistenceThenExtension ==
    Called =>
        /\ ~file.exists =>
              /\ exc.type = "FileNotFoundError"
              /\ ~Printed("PdfReader") /\ ~Printed("Document")
        /\ (file.exists /\ file.ext \in {".pdf", ".PDF"}) =>
              /\ Printed("PdfReader") /\ ~Printed("Document")
              /\ exc.msg # "Unsupported file format"
              /\ exc.type # "FileNotFoundError"
        /\ (file.exists /\ file.ext \in {".docx", ".Docx"}) =>
              /\ Printed("Document") /\ ~Printed("PdfReader")
              /\ exc.msg # "Unsupported file format"
              /\ exc.type # "FileNotFoundError"
        /\ (file.exists /\ file.ext \in {".txt", ".TXT", ""}) =>
              /\ exc.type = "ValueError"
              /\ exc.msg = "Unsupported file format"
              /\ exc.arg = (IF file.ext = ".TXT" THEN ".txt" ELSE file.ext)
              /\ ~Printed("PdfReader") /\ ~Printed("Document")

C14_Witness ==
    /\ pc = "pf_raised"
    /\ file.exists
    /\ file.ext = ".TXT"
    /\ exc.arg = ".txt"

\* C15: close() never raises, whether the connection is open, has gone invalid
\* or is already closed, and once close() has been called, any number of
\* times, the connection is closed.
C15_CloseNeverRaises ==
    /\ pc # "crashed"
    /\ CloseCalls >= 1 => conn = "closed"

C15_Witness ==
    /\ pc = "exit"
    /\ CloseCalls = 3
    /\ Printed("conn_lost")
    /\ conn = "closed"

\* the <<inserted, total>> pairs of the summary lines printed so far
Summaries == {<<e.a, e.b>> : e \in {x \in Range(log) : x.ev = "summary"}}

\* C18: when process_file finishes on a non-empty document, the inserted
\* count of its summary is the number of rows the call has left committed in
\* the table and the total is the number of chunks, whatever embedding calls
\* and inserts failed.
C18_SummaryCountsCommittedRows ==
    (Finished /\ NonEmptyDocument) =>
        Summaries = {<<Len(NewRows), Len(chunks)>>}

\* C19: a text that extract_text returns and that is not empty after trimming
\* is split into at least one chunk: on the non-empty path the loop runs for
\* chunk 0 and the total of the summary is at least 1.
C19_NonEmptyTextHasAChunk ==
    (Called /\ NonEmptyDocument /\ pc # "pf_check") =>
        /\ Len(chunks) >= 1
        /\ (pc # "pf_loop" \/ idx > 0) => \E e \in Range(log) : e.ev = "embed" /\ e.a = 0
        /\ Finished => \E s \in Summaries : s[2] >= 1

C19_Witness ==
    /\ pc = "exit"
    /\ NonEmptyDocument
    /\ file.ext = ".docx"
    /\ Len(file.content.paragraphs) = 2
    /\ Len(chunks) = 1
    /\ \E s \in Summaries : s[2] = 1

\* the chunk indices get_embedding was called for, in the order of the calls
EmbeddedChunks ==
    LET l == SelectSeq(log, LAMBDA e : e.ev = "embed")
    IN  [i \in 1..Len(l) |-> l[i].a]

WithinBounds ==
    /\ remoteCalls <= 3 * Len(chunks)
    /\ sleepCount <= 2 * Len(chunks)
    /\ \A i \in 1..Len(EmbeddedChunks) : \A j \in 1..(i - 1) :
          EmbeddedChunks[j] < EmbeddedChunks[i]
    /\ pc = "pf_raised" => (chunks = <<>> /\ remoteCalls = 0 /\ exc # NoExc)
    /\ pc = "pf_returned" => (Summaries # {} \/ Printed("empty_skipped"))

\* C20: process_file always terminates: with N chunks it makes at most 3*N
\* remote embedding calls and at most 2*N backoff sleeps whatever fails, it
\* calls get_embedding for a chunk at most once and in increasing order (a
\* skipped chunk is never tried again), and it ends by reporting its summary
\* or, on the extraction or sentinel path, by raising.
C20_TerminatesWithinBounds ==
    /\ []WithinBounds
    /\ (pc = "pf_start") ~> (pc \in {"pf_returned", "pf_raised"})

C20_Witness ==
    /\ pc = "pf_returned"
    /\ Len(chunks) = 2
    /\ remoteCalls = 6
    /\ sleepCount = 4
    /\ inserted = 0

====
